---- MODULE Spec2Model ----
(***************************************************************************)
(* Model of the local docker query runner                                  *)
(* (internal/qrunner/localdocker/local_docker.go): the request pipeline    *)
(* RunQuery = pull -> runContainer -> cleanup watcher -> runQuery (exec loop), *)
(* and the garbage collector (containers sub-pass, images sub-pass).       *)
(*                                                                         *)
(* Strings are sequences of tokens. The token "DB" stands for the text     *)
(* "DB::NetException: " and "CR" for "Connection refused", so the          *)
(* readiness sentinel is the two-token string <<"DB","CR">>; "x" is any    *)
(* other text and "NL" the newline that runQuery puts between stdout and   *)
(* stderr.                                                                 *)
(***************************************************************************)
EXTENDS Integers, Sequences, FiniteSets, TLC

\* ---------------------------------------------------------------- bounds
\* Largest configured Config.MaxExecRetries that is explored.
MaxRetries == 3
\* Longest stdout / stderr (in tokens) an exec attempt may produce.
MaxStrLen == 2
\* Latest second of the clock, and latest creation second of a container.
MaxNow == 4
MaxCreated == 2
\* Largest configured GCConfig.ContainerTTL, in seconds.
MaxTTL == 2
\* Largest explored GCConfig.ImageGCCountThreshold and ImageBufferSize.
MaxThreshold == 3
MaxBuffer == 2
\* Latest LastTagTime of an image.
MaxTagTime == 3
\* Largest number of triggers (the first one and those of the ticker) that the
\* garbage collector loop is followed through.
MaxTriggers == 2

\* ------------------------------------------------------------- universes
Req == {"r1", "r2"}

\* Versions a caller may ask for; "0.0" is unknown to the tag storage.
Versions == {"latest", "22.1", "21.8", "0.0"}

Repository == "repo"

NoTag == "none"

\* Mutant of TagStorageGet: every version resolves to some digest.
TagStorageGetAlways(version) == "abc"

\* ImageTagStorage.Get: the digest of the tag, NoTag when the version is absent.
TagStorageGet(version) ==
    CASE version = "latest" -> "abc"
      [] version = "22.1"   -> "abc"
      [] version = "21.8"   -> "def"
      [] OTHER              -> NoTag

\* qrunner.FullImageName(repository, version): the upstream image name.
FullImageName(repository, version) == <<repository, ":", version>>

\* qrunner.PlaygroundImageName(repository, digest): the cache image name.
PlaygroundImageName(repository, digest) == <<repository, "@", digest>>

\* qrunner.IsPlaygroundImageName(tag, repository).
IsPlaygroundImageName(tag, repository) ==
    /\ Len(tag) = 3
    /\ tag[1] = repository
    /\ tag[2] = "@"

\* ---------------------------------------------------------------- strings
Alphabet == {"x", "DB", "CR"}

Strs(n) == UNION {[1..k -> Alphabet] : k \in 0..n}

Sentinel == <<"DB", "CR">>

\* strings.Contains(s, sub)
Contains(s, sub) ==
    \E i \in 1..(Len(s) - Len(sub) + 1) : SubSeq(s, i, i + Len(sub) - 1) = sub

\* Every (stdout, stderr) pair an exec attempt can deliver.
AllOutputs == Strs(MaxStrLen) \X Strs(MaxStrLen)

\* The outputs explored when two requests run side by side: a result on
\* stdout, the not-ready answer, a genuine query error.
FewOutputs == {<< <<"x">>, <<>> >>, << <<>>, Sentinel >>, << <<>>, <<"x">> >>}

\* ------------------------------------------------------------------ state
VARIABLES
    maxExecRetries, \* Config.MaxExecRetries
    outs,           \* which (stdout, stderr) pairs the containers print
    images,         \* image names (tags) present in the local runtime
    pc,             \* per request: position in RunQuery
    version,        \* requestState.version
    ctxDone,        \* the caller's ctx is canceled
    chpImageName,   \* requestState.chpImageName
    container,      \* runtime state of the request's container
    containerID,    \* requestState.containerID is set
    retry,          \* runQuery: loop counter
    stdout,         \* runQuery: stdout of the last exec
    stderr,         \* runQuery: stderr of the last exec
    execErr,        \* exec: the named result err (shared with the collector)
    execCanceled,   \* exec left its select through <-ctx.Done()
    collector,      \* exec: the output-collection goroutine
    copied,         \* exec: outBuf, errBuf and the error StdCopy returned
    err,            \* RunQuery: the variable err (shared with the watcher)
    output,         \* RunQuery: the variable output
    watcher,        \* RunQuery: the cleanup goroutine
    doneClosed,     \* RunQuery: the channel done is closed
    result,         \* what RunQuery returned
    calls,          \* per request: number of runtime calls of each kind
    gcConfigured,   \* Config.GC is not nil
    stopped,        \* the runner's own context r.ctx is canceled
    triggers,       \* number of triggers the collector loop has begun
    containerTTL,           \* GCConfig.ContainerTTL: {} when nil, else {ttl}
    imageGCCountThreshold,  \* GCConfig.ImageGCCountThreshold: {} or {n}
    imageBufferSize,        \* GCConfig.ImageBufferSize
    now,            \* time.Now(), in seconds
    rtContainers,   \* the runtime's containers when the pass begins
    goneContainers, \* ids of the containers removed since
    rtImages,       \* the runtime's images when the pass begins
    goneTags,       \* the image tags removed since
    gcPc,           \* position of the garbage collector
    containers,     \* triggerContainersGC: the listed containers
    candidates,     \* triggerImagesGC: the images with a chp tag
    detailed,       \* triggerImagesGC: the inspected candidates
    toRemove,       \* removeImages: its parameter images
    idx,            \* index of the running range loop
    tagIdx,         \* removeImages: index in img.RepoTags
    ok,             \* removeImages: the variable ok
    count,          \* named result count of the running sub-pass
    spaceReclaimed, \* named result spaceReclaimed of the running sub-pass
    gcErr,          \* named result err of the running sub-pass
    gcLog           \* the runtime calls the sub-pass has issued, in order

\* The state of the collector loop, and with the configuration what no step
\* of a sub-pass changes.
loopVars == <<gcConfigured, stopped, triggers>>
gcCfgVars == <<loopVars, containerTTL, imageGCCountThreshold, imageBufferSize>>
rtVars == <<rtContainers, goneContainers, rtImages, goneTags>>
gcLocals == <<containers, candidates, detailed, toRemove, idx, tagIdx, ok,
              count, spaceReclaimed, gcErr>>
gcVars == <<gcCfgVars, now, rtVars, gcPc, gcLocals, gcLog>>

\* Config.MaxExecRetries, the exec outputs, and all the collector's state:
\* what no step of a request changes.
cfgVars == <<maxExecRetries, outs, gcVars>>
reqVars == <<pc, version, ctxDone, chpImageName, container, containerID>>
rqVars == <<retry, stdout, stderr, execErr, execCanceled, collector, copied>>
topVars == <<err, output, watcher, doneClosed, result>>
vars == <<cfgVars, images, reqVars, rqVars, topVars, calls>>

\* "probe_err" counts the inspects of checkIfImageExists that failed with
\* another error than not-found (the failure it reports to the metrics), and
\* "read_err" the pull streams that io.ReadAll failed to read to their end.
Ops == {"probe", "probe_err", "pull", "read_err", "tag", "create", "start",
        "exec", "remove"}

NoResult == [out |-> <<>>, err |-> "pending"]

\* exec: outBuf, errBuf and the value for outputDone, before StdCopy returned.
NoCopy == <<<<>>, <<>>, "nil">>

Bump(r, op) == [calls EXCEPT ![r][op] = @ + 1]

\* The error of a runtime call that failed: with a canceled ctx it carries
\* the cancellation, otherwise it is some runtime failure.
CallErr(r) == IF ctxDone[r] THEN "canceled" ELSE "failed"

\* A runtime call given ctx can succeed only while ctx is not canceled.
CanSucceed(r) == ~ctxDone[r]

\* A runtime call given r.ctx can succeed only while r.ctx is not canceled.
RunnerCanSucceed == ~stopped

\* The locals of a call that has not run yet.
InitLocals ==
    /\ retry = [r \in Req |-> 0]
    /\ stdout = [r \in Req |-> <<>>]
    /\ stderr = [r \in Req |-> <<>>]
    /\ execErr = [r \in Req |-> "nil"]
    /\ execCanceled = [r \in Req |-> FALSE]
    /\ collector = [r \in Req |-> "none"]
    /\ copied = [r \in Req |-> NoCopy]
    /\ err = [r \in Req |-> "nil"]
    /\ output = [r \in Req |-> <<>>]
    /\ watcher = [r \in Req |-> "none"]
    /\ doneClosed = [r \in Req |-> FALSE]
    /\ result = [r \in Req |-> NoResult]
    /\ calls = [r \in Req |-> [op \in Ops |-> 0]]

\* The request pipeline takes no step.
InitNoRequest ==
    /\ maxExecRetries = 0
    /\ outs = "few"
    /\ images = {}
    /\ version = [r \in Req |-> "latest"]
    /\ pc = [r \in Req |-> "off"]
    /\ ctxDone = [r \in Req |-> FALSE]
    /\ chpImageName = [r \in Req |-> <<>>]
    /\ container = [r \in Req |-> "none"]
    /\ containerID = [r \in Req |-> FALSE]
    /\ InitLocals

\* The locals of a sub-pass that has not run yet.
InitGCLocals ==
    /\ containers = <<>>
    /\ candidates = <<>>
    /\ detailed = <<>>
    /\ toRemove = <<>>
    /\ idx = 1
    /\ tagIdx = 1
    /\ ok = TRUE
    /\ count = 0
    /\ spaceReclaimed = 0
    /\ gcErr = "nil"
    /\ gcLog = <<>>

\* No garbage collector (Config.GC is nil) and an empty runtime.
InitNoGC ==
    /\ gcConfigured = FALSE
    /\ stopped = FALSE
    /\ triggers = 0
    /\ containerTTL = {}
    /\ imageGCCountThreshold = {}
    /\ imageBufferSize = 0
    /\ now = 0
    /\ rtContainers = {}
    /\ goneContainers = {}
    /\ rtImages = {}
    /\ goneTags = {}
    /\ gcPc = "off"
    /\ InitGCLocals

InitReq(active, retries, outputs) ==
    /\ InitNoGC
    /\ maxExecRetries \in retries
    /\ outs = outputs
    /\ images = {}
    /\ version \in [Req -> Versions]
    /\ \A r \in Req \ active : version[r] = "latest"
    /\ pc = [r \in Req |-> IF r \in active THEN "pull_get" ELSE "off"]
    /\ ctxDone = [r \in Req |-> FALSE]
    /\ chpImageName = [r \in Req |-> <<>>]
    /\ container = [r \in Req |-> "none"]
    /\ containerID = [r \in Req |-> FALSE]
    /\ InitLocals

\* RunQuery returns (out, e); the deferred close(done) runs.
Return(r, out, e) ==
    /\ result' = [result EXCEPT ![r] = [out |-> out, err |-> e]]
    /\ doneClosed' = [doneClosed EXCEPT ![r] = (watcher[r] # "none")]
    /\ pc' = [pc EXCEPT ![r] = "done"]

\* RunQuery returns before the watcher exists (no done channel yet).
EarlyReturn(r, e) ==
    /\ result' = [result EXCEPT ![r] = [out |-> <<>>, err |-> e]]
    /\ pc' = [pc EXCEPT ![r] = "done"]
    /\ UNCHANGED <<doneClosed>>

\* The caller cancels the ctx it gave to RunQuery.
Cancel(r) ==
    /\ pc[r] \notin {"off", "done"}
    /\ ~ctxDone[r]
    /\ ctxDone' = [ctxDone EXCEPT ![r] = TRUE]
    /\ UNCHANGED <<cfgVars, images, pc, version, chpImageName, container,
                   containerID, rqVars, topVars, calls>>

\* ------------------------------------------------------------------ pull
\* pull: tagStorage.Get and the cache image name.
PullResolve(r) ==
    /\ pc[r] = "pull_get"
    /\ LET digest == TagStorageGet(version[r]) IN
        IF digest = NoTag
        THEN /\ EarlyReturn(r, "version not found")
             /\ UNCHANGED chpImageName
        ELSE /\ chpImageName' = [chpImageName EXCEPT
                    ![r] = PlaygroundImageName(Repository, digest)]
             /\ pc' = [pc EXCEPT ![r] = "pull_probe"]
             /\ UNCHANGED <<result, doneClosed>>
    /\ UNCHANGED <<cfgVars, images, version, ctxDone, container, containerID,
                   rqVars, err, output, watcher, calls>>

\* Mutant of ProbeHit: the probe never finds the image.
ProbeHitNever(r, answered) == FALSE

\* Mutant of ProbeHit: any answer of the runtime counts as a hit.
ProbeHitAnyAnswer(r, answered) == answered

\* checkIfImageExists: true only when the inspect returns no error.
ProbeHit(r, answered) == answered /\ chpImageName[r] \in images

PullProbe(r) ==
    /\ pc[r] = "pull_probe"
    /\ \E answered \in {TRUE, FALSE} :
        /\ answered => CanSucceed(r)
        /\ pc' = [pc EXCEPT ![r] =
                    IF ProbeHit(r, answered) THEN "create" ELSE "pull_pull"]
        /\ calls' = [calls EXCEPT
                ![r]["probe"] = @ + 1,
                ![r]["probe_err"] = IF answered THEN @ ELSE @ + 1]
    /\ UNCHANGED <<cfgVars, images, version, ctxDone, chpImageName, container,
                   containerID, rqVars, topVars>>

\* cli.ImagePull: on success a stream is returned that has yet to be read.
PullImage(r) ==
    /\ pc[r] = "pull_pull"
    /\ calls' = Bump(r, "pull")
    /\ \/ /\ CanSucceed(r)
          /\ pc' = [pc EXCEPT ![r] = "pull_read"]
          /\ UNCHANGED <<result, doneClosed>>
       \/ EarlyReturn(r, CallErr(r))
    /\ UNCHANGED <<cfgVars, images, version, ctxDone, chpImageName, container,
                   containerID, rqVars, err, output, watcher>>

\* io.ReadAll(out): the image is local once the stream was read to its end;
\* a read error is logged and pull goes on to the tag call.
PullRead(r) ==
    /\ pc[r] = "pull_read"
    /\ \/ /\ CanSucceed(r)
          /\ images' = images \cup {FullImageName(Repository, version[r])}
          /\ UNCHANGED calls
       \/ /\ calls' = Bump(r, "read_err")
          /\ UNCHANGED images
    /\ pc' = [pc EXCEPT ![r] = "pull_tag"]
    /\ UNCHANGED <<cfgVars, version, ctxDone, chpImageName, container,
                   containerID, rqVars, topVars>>

\* cli.ImageTag(imageName, chpImageName).
PullTag(r) ==
    /\ pc[r] = "pull_tag"
    /\ calls' = Bump(r, "tag")
    /\ \/ /\ CanSucceed(r)
          /\ FullImageName(Repository, version[r]) \in images
          /\ images' = images \cup {chpImageName[r]}
          /\ pc' = [pc EXCEPT ![r] = "create"]
          /\ UNCHANGED <<result, doneClosed>>
       \/ /\ EarlyReturn(r, CallErr(r))
          /\ UNCHANGED images
    /\ UNCHANGED <<cfgVars, version, ctxDone, chpImageName, container,
                   containerID, rqVars, err, output, watcher>>

\* ---------------------------------------------------------- runContainer
\* cli.ContainerCreate.
CreateContainer(r) ==
    /\ pc[r] = "create"
    /\ calls' = Bump(r, "create")
    /\ \/ /\ CanSucceed(r)
          /\ container' = [container EXCEPT ![r] = "created"]
          /\ pc' = [pc EXCEPT ![r] = "start"]
          /\ UNCHANGED <<result, doneClosed>>
       \/ /\ EarlyReturn(r, CallErr(r))
          /\ UNCHANGED container
    /\ UNCHANGED <<cfgVars, images, version, ctxDone, chpImageName,
                   containerID, rqVars, err, output, watcher>>

\* cli.ContainerStart; state.containerID is set only when it succeeded.
StartContainer(r) ==
    /\ pc[r] = "start"
    /\ calls' = Bump(r, "start")
    /\ \/ /\ CanSucceed(r)
          /\ container' = [container EXCEPT ![r] = "running"]
          /\ containerID' = [containerID EXCEPT ![r] = TRUE]
          /\ pc' = [pc EXCEPT ![r] = "spawn"]
          /\ UNCHANGED <<result, doneClosed>>
       \/ /\ EarlyReturn(r, CallErr(r))
          /\ UNCHANGED <<container, containerID>>
    /\ UNCHANGED <<cfgVars, images, version, ctxDone, chpImageName,
                   rqVars, err, output, watcher>>

\* ---------------------------------------------------------------- runQuery
\* for retry := 0; retry < r.cfg.MaxExecRetries; retry++
LoopTarget(n) == IF n < maxExecRetries THEN "exec_create" ELSE "rq_ret"

\* RunQuery: done := make(chan struct{}); go func() {...}(); runQuery begins.
SpawnWatcher(r) ==
    /\ pc[r] = "spawn"
    /\ watcher' = [watcher EXCEPT ![r] = "wait"]
    /\ pc' = [pc EXCEPT ![r] = LoopTarget(0)]
    /\ UNCHANGED <<cfgVars, images, version, ctxDone, chpImageName, container,
                   containerID, rqVars, err, output, doneClosed, result, calls>>

\* Mutant of WatcherReady: the watcher does not wait for either signal.
WatcherReadyAlways(r) == TRUE

\* The watcher's select: <-ctx.Done() or <-done.
WatcherReady(r) == ctxDone[r] \/ doneClosed[r]

\* The watcher: err = r.forceRemoveContainer(state.containerID). The
\* assignment is to RunQuery's own variable err.
WatcherRemove(r) ==
    /\ watcher[r] = "wait"
    /\ WatcherReady(r)
    /\ calls' = Bump(r, "remove")
    /\ \/ /\ RunnerCanSucceed
          /\ container' = [container EXCEPT ![r] = "removed"]
          /\ err' = [err EXCEPT ![r] = "nil"]
       \/ /\ UNCHANGED container
          /\ err' = [err EXCEPT ![r] = "remove failed"]
    /\ watcher' = [watcher EXCEPT ![r] = "done"]
    /\ UNCHANGED <<cfgVars, images, pc, version, ctxDone, chpImageName,
                   containerID, rqVars, output, doneClosed, result>>

\* Mutant of checkIfQueryExecuted: only an empty stderr counts as executed.
checkOnlyEmptyStderr(so, se) == se = <<>>

\* checkIfQueryExecuted(stdout, stderr)
checkIfQueryExecuted(so, se) == ~Contains(se, Sentinel)

\* exec: cli.ContainerExecCreate. A failure is returned through runQuery to
\* RunQuery, which assigns it to err. runQuery does not read its stdout and
\* stderr again before it assigns the results of this call to them: they are
\* emptied as the call begins.
ExecCreate(r) ==
    /\ pc[r] = "exec_create"
    /\ calls' = Bump(r, "exec")
    /\ \/ /\ CanSucceed(r)
          /\ pc' = [pc EXCEPT ![r] = "exec_attach"]
          /\ stdout' = [stdout EXCEPT ![r] = <<>>]
          /\ stderr' = [stderr EXCEPT ![r] = <<>>]
          /\ UNCHANGED <<err, output>>
       \/ /\ pc' = [pc EXCEPT ![r] = "check"]
          /\ stdout' = [stdout EXCEPT ![r] = <<>>]
          /\ stderr' = [stderr EXCEPT ![r] = <<>>]
          /\ err' = [err EXCEPT ![r] = CallErr(r)]
          /\ output' = [output EXCEPT ![r] = <<>>]
    /\ UNCHANGED <<cfgVars, images, version, ctxDone, chpImageName, container,
                   containerID, retry, execErr, execCanceled, collector,
                   copied, watcher, doneClosed, result>>

\* exec: cli.ContainerExecAttach, then the output-collection goroutine starts.
ExecAttach(r) ==
    /\ pc[r] = "exec_attach"
    /\ \/ /\ CanSucceed(r)
          /\ pc' = [pc EXCEPT ![r] = "exec_select"]
          /\ collector' = [collector EXCEPT ![r] = "copy"]
          /\ execErr' = [execErr EXCEPT ![r] = "nil"]
          /\ UNCHANGED <<stdout, stderr, err, output>>
       \/ /\ pc' = [pc EXCEPT ![r] = "check"]
          /\ stdout' = [stdout EXCEPT ![r] = <<>>]
          /\ stderr' = [stderr EXCEPT ![r] = <<>>]
          /\ err' = [err EXCEPT ![r] = CallErr(r)]
          /\ output' = [output EXCEPT ![r] = <<>>]
          /\ UNCHANGED <<collector, execErr>>
    /\ UNCHANGED <<cfgVars, images, version, ctxDone, chpImageName, container,
                   containerID, retry, execCanceled, copied, watcher,
                   doneClosed, result, calls>>

\* The (stdout, stderr) pairs an exec attempt can deliver in this run.
ExecOutputs == IF outs = "all" THEN AllOutputs ELSE FewOutputs

\* The collector: _, err = stdcopy.StdCopy(&outBuf, &errBuf, resp.Reader).
\* It writes the named result err of exec, then goes on to send it.
CollectorCopy(r) ==
    /\ collector[r] = "copy"
    /\ \/ \E o \in ExecOutputs :
            /\ copied' = [copied EXCEPT ![r] = <<o[1], o[2], "nil">>]
            /\ execErr' = [execErr EXCEPT ![r] = "nil"]
       \/ /\ copied' = [copied EXCEPT ![r] = <<<<>>, <<>>, "copy failed">>]
          /\ execErr' = [execErr EXCEPT ![r] = "copy failed"]
    /\ collector' = [collector EXCEPT ![r] = "send"]
    /\ UNCHANGED <<cfgVars, images, reqVars, retry, stdout, stderr,
                   execCanceled, topVars, calls>>

\* The unbuffered channel outputDone hands a value over only while exec is
\* in its select.
CanReceive(r) == pc[r] = "exec_select"

\* exec: case err := <-outputDone, joined with the collector's send. exec
\* returns and runQuery checks the readiness of the answer.
ExecReceive(r) ==
    /\ CanReceive(r)
    /\ collector[r] = "send"
    /\ collector' = [collector EXCEPT ![r] = "done"]
    /\ copied' = [copied EXCEPT ![r] = NoCopy]
    /\ IF copied[r][3] # "nil"
       THEN /\ pc' = [pc EXCEPT ![r] = "check"]
            /\ stdout' = [stdout EXCEPT ![r] = <<>>]
            /\ stderr' = [stderr EXCEPT ![r] = <<>>]
            /\ err' = [err EXCEPT ![r] = "copy failed"]
            /\ output' = [output EXCEPT ![r] = <<>>]
            /\ UNCHANGED execErr
       ELSE /\ stdout' = [stdout EXCEPT ![r] = copied[r][1]]
            /\ stderr' = [stderr EXCEPT ![r] = copied[r][2]]
            /\ execErr' = [execErr EXCEPT ![r] = "nil"]
            /\ pc' = [pc EXCEPT ![r] =
                  IF checkIfQueryExecuted(copied[r][1], copied[r][2])
                  THEN "rq_ret" ELSE "sleep"]
            /\ UNCHANGED <<err, output>>
    /\ UNCHANGED <<cfgVars, images, version, ctxDone, chpImageName, container,
                   containerID, retry, execCanceled, watcher,
                   doneClosed, result, calls>>

\* exec: case <-ctx.Done(): return "", "", ctx.Err(). The result err is set
\* and the deferred calls (resp.Close, the metric) run before exec returns.
ExecCancel(r) ==
    /\ pc[r] = "exec_select"
    /\ ctxDone[r]
    /\ execErr' = [execErr EXCEPT ![r] = "canceled"]
    /\ execCanceled' = [execCanceled EXCEPT ![r] = TRUE]
    /\ pc' = [pc EXCEPT ![r] = "exec_unwind"]
    /\ UNCHANGED <<cfgVars, images, version, ctxDone, chpImageName, container,
                   containerID, retry, stdout, stderr, collector, copied,
                   topVars, calls>>

\* exec returns after its select was left through ctx.Done(): the caller gets
\* what the named result err holds by then. runQuery returns a non-nil error
\* at once; with a nil one the empty stderr counts as executed.
ExecUnwind(r) ==
    /\ pc[r] = "exec_unwind"
    /\ stdout' = [stdout EXCEPT ![r] = <<>>]
    /\ stderr' = [stderr EXCEPT ![r] = <<>>]
    /\ IF execErr[r] # "nil"
       THEN /\ pc' = [pc EXCEPT ![r] = "check"]
            /\ err' = [err EXCEPT ![r] = execErr[r]]
            /\ output' = [output EXCEPT ![r] = <<>>]
       ELSE /\ pc' = [pc EXCEPT ![r] = "rq_ret"]
            /\ UNCHANGED <<err, output>>
    /\ UNCHANGED <<cfgVars, images, version, ctxDone, chpImageName, container,
                   containerID, retry, execErr, execCanceled, collector,
                   copied, watcher, doneClosed, result, calls>>

\* runQuery: time.Sleep(r.cfg.ExecRetryDelay), then retry++ and the loop test.
Sleep(r) ==
    /\ pc[r] = "sleep"
    /\ retry' = [retry EXCEPT ![r] = @ + 1]
    /\ pc' = [pc EXCEPT ![r] = LoopTarget(retry[r] + 1)]
    /\ UNCHANGED <<cfgVars, images, version, ctxDone, chpImageName, container,
                   containerID, stdout, stderr, execErr, execCanceled,
                   collector, copied, topVars, calls>>

\* runQuery: the returned output.
QueryOutput(so, se) == IF se = <<>> THEN so ELSE so \o <<"NL">> \o se

\* Mutant of QueryReturn: a last answer that still holds the sentinel is
\* reported as an error.
QueryReturnNotReadyError(r) ==
    /\ pc[r] = "rq_ret"
    /\ output' = [output EXCEPT ![r] =
            IF Contains(stderr[r], Sentinel) THEN <<>>
            ELSE QueryOutput(stdout[r], stderr[r])]
    /\ err' = [err EXCEPT ![r] =
            IF Contains(stderr[r], Sentinel) THEN "not ready" ELSE "nil"]
    /\ pc' = [pc EXCEPT ![r] = "check"]
    /\ UNCHANGED <<cfgVars, images, version, ctxDone, chpImageName, container,
                   containerID, rqVars, watcher, doneClosed, result, calls>>

\* runQuery returns (output, nil); RunQuery assigns both: output, err := ...
QueryReturn(r) ==
    /\ pc[r] = "rq_ret"
    /\ output' = [output EXCEPT ![r] = QueryOutput(stdout[r], stderr[r])]
    /\ err' = [err EXCEPT ![r] = "nil"]
    /\ pc' = [pc EXCEPT ![r] = "check"]
    /\ UNCHANGED <<cfgVars, images, version, ctxDone, chpImageName, container,
                   containerID, rqVars, watcher, doneClosed, result, calls>>

\* RunQuery: if err != nil { return "", wrapped err }; return output, nil.
RunQueryReturn(r) ==
    /\ pc[r] = "check"
    /\ IF err[r] # "nil"
       THEN Return(r, <<>>, err[r])
       ELSE Return(r, output[r], "nil")
    /\ UNCHANGED <<cfgVars, images, version, ctxDone, chpImageName, container,
                   containerID, rqVars, err, output, watcher, calls>>

\* ------------------------------------------------------------ request spec
MainStep(r) ==
    \/ PullResolve(r)
    \/ PullProbe(r)
    \/ PullImage(r)
    \/ PullRead(r)
    \/ PullTag(r)
    \/ CreateContainer(r)
    \/ StartContainer(r)
    \/ SpawnWatcher(r)
    \/ ExecCreate(r)
    \/ ExecAttach(r)
    \/ ExecReceive(r)
    \/ ExecCancel(r)
    \/ ExecUnwind(r)
    \/ Sleep(r)
    \/ QueryReturn(r)
    \/ RunQueryReturn(r)

GoroutineStep(r) ==
    \/ WatcherRemove(r)
    \/ CollectorCopy(r)

Next == \E r \in Req : Cancel(r) \/ MainStep(r) \/ GoroutineStep(r)

\* One RunQuery call, from its first statement to its return.
Init == InitReq({"r1"}, 0..MaxRetries, "few")

Spec == Init /\ [][Next]_vars

\* A goroutine that can run does run, and a runtime call returns: the main
\* goroutine of the request, its watcher and its collector each take the step
\* they are able to take. The caller is never obliged to cancel.
FairSpec ==
    /\ Spec
    /\ \A r \in Req : /\ WF_vars(MainStep(r))
                      /\ WF_vars(WatcherRemove(r))
                      /\ WF_vars(CollectorCopy(r))

\* One RunQuery call on a runtime that may hold, from an earlier request, the
\* upstream image "latest" under its cache name.
InitWarm ==
    /\ InitNoGC
    /\ maxExecRetries = 1
    /\ outs = "few"
    /\ images \in {{}, {FullImageName(Repository, "latest"),
                         PlaygroundImageName(Repository, "abc")}}
    /\ version \in [Req -> Versions]
    /\ version["r2"] = "latest"
    /\ pc = [r \in Req |-> IF r = "r1" THEN "pull_get" ELSE "off"]
    /\ ctxDone = [r \in Req |-> FALSE]
    /\ chpImageName = [r \in Req |-> <<>>]
    /\ container = [r \in Req |-> "none"]
    /\ containerID = [r \in Req |-> FALSE]
    /\ InitLocals

SpecWarm == InitWarm /\ [][Next]_vars

\* Two concurrent calls of pull (pc = "create" is pull having returned nil).
PullStep(r) ==
    \/ Cancel(r)
    \/ PullResolve(r)
    \/ PullProbe(r)
    \/ PullImage(r)
    \/ PullRead(r)
    \/ PullTag(r)

NextPull == \E r \in Req : PullStep(r)

InitPull == InitReq(Req, {1}, "few")

SpecPull == InitPull /\ [][NextPull]_vars

\* One call of runQuery on a started container (pc = "check" is runQuery
\* having returned, output and err holding its results).
QueryStep(r) ==
    \/ Cancel(r)
    \/ ExecCreate(r)
    \/ ExecAttach(r)
    \/ CollectorCopy(r)
    \/ ExecReceive(r)
    \/ ExecCancel(r)
    \/ ExecUnwind(r)
    \/ Sleep(r)
    \/ QueryReturn(r)

NextQuery == \E r \in Req : QueryStep(r)

InitQuery ==
    /\ maxExecRetries \in 0..MaxRetries
    /\ outs = "all"
    /\ version = [r \in Req |-> "latest"]
    /\ chpImageName = [r \in Req |->
            IF r = "r1" THEN PlaygroundImageName(Repository, "abc") ELSE <<>>]
    /\ images = {FullImageName(Repository, "latest"),
                 PlaygroundImageName(Repository, "abc")}
    /\ pc = [r \in Req |-> IF r = "r1" THEN LoopTarget(0) ELSE "off"]
    /\ ctxDone = [r \in Req |-> FALSE]
    /\ container = [r \in Req |-> IF r = "r1" THEN "running" ELSE "none"]
    /\ containerID = [r \in Req |-> r = "r1"]
    /\ InitLocals
    /\ InitNoGC

SpecQuery == InitQuery /\ [][NextQuery]_vars

\* ------------------------------------------------------ garbage collector
\* What no step of the garbage collector changes.
requestSide == <<maxExecRetries, outs, images, reqVars, rqVars, topVars, calls>>

ContainerIds == {"c1", "c2"}

ImageIds == {"i1", "i2", "i3", "u1"}

\* The RepoTags of the images of the pool: a pulled image carries its cache
\* name beside the upstream name; "u1" belongs to another repository.
PoolTags(id) ==
    CASE id = "i1" -> <<PlaygroundImageName(Repository, "abc"),
                        FullImageName(Repository, "latest")>>
      [] id = "i2" -> <<PlaygroundImageName(Repository, "def")>>
      [] id = "i3" -> <<PlaygroundImageName(Repository, "ghi")>>
      [] OTHER     -> <<PlaygroundImageName("other", "abc")>>

PoolSize(id) ==
    CASE id = "i1" -> 1
      [] id = "i2" -> 2
      [] id = "i3" -> 4
      [] OTHER     -> 8

Range(f) == {f[i] : i \in DOMAIN f}

\* The order in which the runtime lists its objects.
ListOrder == <<"c1", "c2", "i1", "i2", "i3", "u1">>

\* A set of records with distinct ids, as the runtime lists it.
SeqOf(S) ==
    LET F[k \in 0..Len(ListOrder)] ==
            IF k = 0 THEN <<>>
            ELSE IF \E x \in S : x.id = ListOrder[k]
                 THEN Append(F[k - 1], CHOOSE x \in S : x.id = ListOrder[k])
                 ELSE F[k - 1]
    IN F[Len(ListOrder)]

\* Mutant of OwnedFilter: the calls are not filtered by the label.
OwnedFilterAll(c) == TRUE

\* filters.Arg("label", qrunner.LabelOwnership)
OwnedFilter(c) == c.owned

\* The containers the runtime holds now.
LiveContainers == {c \in rtContainers : c.id \notin goneContainers}

\* An image as the runtime shows it now: with the tags it still has.
LiveTags(img) == SelectSeq(img.tags, LAMBDA t : t \notin goneTags)

LiveImages ==
    {[img EXCEPT !.tags = LiveTags(img)] :
        img \in {i \in rtImages : LiveTags(i) # <<>>}}

Log(entry) == gcLog' = Append(gcLog, entry)

\* triggerContainersGC: cli.ContainersPrune with the ownership label, then
\* the test of ContainerTTL.
ContainersPrune ==
    /\ gcPc = "c_start"
    /\ Log(<<"prune">>)
    /\ \/ LET pruned == {c \in LiveContainers : OwnedFilter(c) /\ ~c.running}
          IN /\ RunnerCanSucceed
             /\ goneContainers' = goneContainers \cup {c.id : c \in pruned}
             /\ count' = Cardinality(pruned)
             /\ spaceReclaimed' = Cardinality(pruned)
             /\ gcPc' = IF containerTTL = {} THEN "c_ret" ELSE "c_list"
             /\ UNCHANGED gcErr
       \/ /\ gcErr' = "failed to prune stopped containers"
          /\ gcPc' = "c_ret"
          /\ UNCHANGED <<goneContainers, count, spaceReclaimed>>
    /\ UNCHANGED <<gcCfgVars, now, rtContainers, rtImages, goneTags,
                   containers, candidates, detailed, toRemove, idx, tagIdx,
                   ok, requestSide>>

\* triggerContainersGC: cli.ContainerList with the ownership label.
ContainersList ==
    /\ gcPc = "c_list"
    /\ Log(<<"list">>)
    /\ \/ LET listed == SeqOf({c \in LiveContainers : OwnedFilter(c)})
          IN /\ RunnerCanSucceed
             /\ containers' = listed
             /\ idx' = 1
             /\ gcPc' = IF listed = <<>> THEN "c_ret" ELSE "c_sweep"
             /\ UNCHANGED gcErr
       \/ /\ gcErr' = "failed to list containers"
          /\ gcPc' = "c_ret"
          /\ UNCHANGED <<containers, idx>>
    /\ UNCHANGED <<gcCfgVars, now, rtVars, candidates, detailed, toRemove,
                   tagIdx, ok, count, spaceReclaimed, requestSide>>

\* Mutant of IsHung: a container counts as hung a second early.
IsHungEarly(c, ttl, t) == ~(t + 1 < c.created + ttl)

\* deadline := time.Unix(c.Created, 0).Add(ttl); !time.Now().Before(deadline)
IsHung(c, ttl, t) == ~(t < c.created + ttl)

\* triggerContainersGC: one round of the loop over the listed containers.
SweepContainer ==
    /\ gcPc = "c_sweep"
    /\ LET c == containers[idx]
           ttl == CHOOSE t \in containerTTL : TRUE
       IN IF ~IsHung(c, ttl, now)
          THEN UNCHANGED <<goneContainers, count, spaceReclaimed, gcLog>>
          ELSE /\ Log(<<"remove", c.id, c.created, now>>)
               /\ \/ /\ RunnerCanSucceed
                     /\ c.id \notin goneContainers
                     /\ goneContainers' = goneContainers \cup {c.id}
                     /\ count' = count + 1
                     /\ spaceReclaimed' = spaceReclaimed + 1
                  \/ UNCHANGED <<goneContainers, count, spaceReclaimed>>
    /\ idx' = idx + 1
    /\ gcPc' = IF idx = Len(containers) THEN "c_ret" ELSE "c_sweep"
    /\ UNCHANGED <<gcCfgVars, now, rtContainers, rtImages, goneTags,
                   containers, candidates, detailed, toRemove, tagIdx, ok,
                   gcErr, requestSide>>

\* A second passes.
Tick ==
    /\ gcPc \notin {"off", "c_ret"}
    /\ now < MaxNow
    /\ now' = now + 1
    /\ UNCHANGED <<gcCfgVars, rtVars, gcPc, gcLocals, gcLog, requestSide>>

\* Mutant of Candidates: every listed image is a candidate.
CandidatesUnfiltered(listed) == listed

\* triggerImagesGC: the images with at least one chp tag, in list order.
Candidates(listed) ==
    SelectSeq(listed, LAMBDA img :
        \E i \in DOMAIN img.tags : IsPlaygroundImageName(img.tags[i], Repository))

\* triggerImagesGC: the threshold test, cli.ImageList, the candidates and the
\* count test.
ImagesStart ==
    /\ gcPc = "i_start"
    /\ IF imageGCCountThreshold = {}
       THEN /\ gcPc' = "i_ret"
            /\ UNCHANGED <<candidates, gcErr, gcLog>>
       ELSE /\ Log(<<"imagelist">>)
            /\ \/ LET found == Candidates(SeqOf(LiveImages))
                      threshold == CHOOSE n \in imageGCCountThreshold : TRUE
                  IN /\ RunnerCanSucceed
                     /\ candidates' = found
                     /\ gcPc' = IF Len(found) < threshold THEN "i_ret"
                                ELSE IF found = <<>> THEN "i_sort"
                                ELSE "i_inspect"
                     /\ UNCHANGED gcErr
               \/ /\ gcErr' = "failed to list images"
                  /\ gcPc' = "i_ret"
                  /\ UNCHANGED candidates
    /\ idx' = 1
    /\ UNCHANGED <<gcCfgVars, now, rtVars, containers, detailed, toRemove,
                   tagIdx, ok, count, spaceReclaimed, requestSide>>

\* triggerImagesGC: one round of the inspect loop; a failed inspect is logged
\* and the candidate skipped.
ImageInspect ==
    /\ gcPc = "i_inspect"
    /\ LET c == candidates[idx]
       IN /\ Log(<<"inspect", c.id>>)
          /\ \/ /\ RunnerCanSucceed
                /\ \E img \in LiveImages : img.id = c.id
                /\ detailed' = Append(detailed,
                                      CHOOSE img \in LiveImages : img.id = c.id)
             \/ UNCHANGED detailed
    /\ idx' = idx + 1
    /\ gcPc' = IF idx = Len(candidates) THEN "i_sort" ELSE "i_inspect"
    /\ UNCHANGED <<gcCfgVars, now, rtVars, containers, candidates, toRemove,
                   tagIdx, ok, count, spaceReclaimed, gcErr, requestSide>>

\* The less function given to sort.Slice.
Less(a, b) == a.lastTag < b.lastTag

\* sort.Slice(detailed, less): some ordering of the same elements in which no
\* element is less than one before it (the sort is not stable).
SortedOrders(list) ==
    {s \in [1..Len(list) -> Range(list)] :
        /\ Range(s) = Range(list)
        /\ \A i, j \in 1..Len(list) : i < j => ~Less(s[j], s[i])}

\* Mutant of SliceFrom: the slice begins one element early.
SliceFromOneEarly(list, n) == SubSeq(list, IF n = 0 THEN 1 ELSE n, Len(list))

\* detailed[int(r.cfg.GC.ImageBufferSize):]
SliceFrom(list, n) == SubSeq(list, n + 1, Len(list))

\* triggerImagesGC: the sort, the test of ImageBufferSize and the slice that
\* removeImages is called with.
ImagesSort ==
    /\ gcPc = "i_sort"
    /\ \E s \in SortedOrders(detailed) :
        /\ detailed' = s
        /\ IF Len(s) > imageBufferSize
           THEN /\ toRemove' = SliceFrom(s, imageBufferSize)
                /\ gcPc' = "i_remove"
           ELSE /\ toRemove' = <<>>
                /\ gcPc' = "i_ret"
    /\ idx' = 1
    /\ tagIdx' = 1
    /\ ok' = TRUE
    /\ UNCHANGED <<gcCfgVars, now, rtVars, containers, candidates, count,
                   spaceReclaimed, gcErr, gcLog, requestSide>>

\* Mutant of AllRemoved: only the removal of the last tag decides.
AllRemovedLastOnly(okSoFar, removed) == removed

\* removeImages: ok stays true only while no removal of the image has failed.
AllRemoved(okSoFar, removed) == okSoFar /\ removed

\* removeImages: one cli.ImageRemove(tag) of the inner loop; after the last
\* tag of an image, the image is counted when every removal succeeded.
RemoveTag ==
    /\ gcPc = "i_remove"
    /\ LET img == toRemove[idx]
           tag == img.tags[tagIdx]
           last == tagIdx = Len(img.tags)
       IN /\ Log(<<"imageremove", img.id, tag>>)
          /\ \E removed \in {TRUE, FALSE} :
                /\ removed => (RunnerCanSucceed /\ tag \notin goneTags)
                /\ goneTags' = IF removed THEN goneTags \cup {tag} ELSE goneTags
                /\ LET allOk == AllRemoved(ok, removed)
                   IN /\ ok' = IF last THEN TRUE ELSE allOk
                      /\ count' = IF last /\ allOk THEN count + 1 ELSE count
                      /\ spaceReclaimed' =
                            IF last /\ allOk THEN spaceReclaimed + img.size
                            ELSE spaceReclaimed
          /\ tagIdx' = IF last THEN 1 ELSE tagIdx + 1
          /\ idx' = IF last THEN idx + 1 ELSE idx
          /\ gcPc' = IF last /\ idx = Len(toRemove) THEN "i_ret" ELSE "i_remove"
    /\ UNCHANGED <<gcCfgVars, now, rtContainers, goneContainers, rtImages,
                   containers, candidates, detailed, toRemove, gcErr,
                   requestSide>>

\* One call of triggerContainersGC (gcPc = "c_ret" is its return).
NextContainersGC ==
    \/ ContainersPrune
    \/ ContainersList
    \/ SweepContainer
    \/ Tick

\* The containers a runtime may hold: any of the pool, each created at some
\* second, owned or not, running or not.
ContainerSets ==
    {{[id |-> i, created |-> cr[i], owned |-> ow[i], running |-> ru[i]] :
            i \in present} :
        present \in SUBSET ContainerIds,
        cr \in [ContainerIds -> 0..MaxCreated],
        ow \in [ContainerIds -> BOOLEAN],
        ru \in [ContainerIds -> BOOLEAN]}

InitContainersGC ==
    /\ InitNoRequest
    /\ gcConfigured = TRUE
    /\ stopped = FALSE
    /\ triggers = 0
    /\ containerTTL \in {{}} \cup {{t} : t \in 1..MaxTTL}
    /\ imageGCCountThreshold = {}
    /\ imageBufferSize = 0
    /\ now \in 0..MaxNow
    /\ rtContainers \in ContainerSets
    /\ \A c \in rtContainers : c.created <= now
    /\ goneContainers = {}
    /\ rtImages = {}
    /\ goneTags = {}
    /\ gcPc = "c_start"
    /\ InitGCLocals

SpecContainersGC == InitContainersGC /\ [][NextContainersGC]_vars

\* One call of triggerImagesGC (gcPc = "i_ret" is its return).
NextImagesGC ==
    \/ ImagesStart
    \/ ImageInspect
    \/ ImagesSort
    \/ RemoveTag

\* The images a runtime may hold: any of the pool, each last tagged at some
\* time (that of "u1", which is not ours, is left at 1).
ImageSets ==
    {{[id |-> i, tags |-> PoolTags(i), size |-> PoolSize(i), lastTag |-> f[i]] :
            i \in present} :
        present \in SUBSET ImageIds,
        f \in {g \in [ImageIds -> 1..MaxTagTime] : g["u1"] = 1}}

InitImagesGC ==
    /\ InitNoRequest
    /\ gcConfigured = TRUE
    /\ stopped = FALSE
    /\ triggers = 0
    /\ containerTTL = {}
    /\ imageGCCountThreshold \in {{}} \cup {{n} : n \in 0..MaxThreshold}
    /\ imageBufferSize \in 0..MaxBuffer
    /\ now = 0
    /\ rtContainers = {}
    /\ goneContainers = {}
    /\ rtImages \in ImageSets
    /\ goneTags = {}
    /\ gcPc = "i_start"
    /\ InitGCLocals

SpecImagesGC == InitImagesGC /\ [][NextImagesGC]_vars

\* ------------------------------------------------------ the collector loop
\* Mutant of isStopped: the cancellation of r.ctx is never seen.
isStoppedNever == FALSE

\* isStopped: the non-blocking select on r.ctx.Done().
isStopped == stopped

\* Mutant of AfterTrigger: a failed trigger ends the loop.
AfterTriggerFatal(e) == IF e = "nil" THEN "loop_wait" ELSE "exited"

\* The closure trigger of StartGarbageCollector logs the error of triggerGC
\* and returns: the collector goes (back) to the select of its loop.
AfterTrigger(e) == "loop_wait"

\* The locals of the sub-passes are gone once triggerGC has returned.
ForgetGCLocals ==
    /\ containers' = <<>>
    /\ candidates' = <<>>
    /\ detailed' = <<>>
    /\ toRemove' = <<>>
    /\ idx' = 1
    /\ tagIdx' = 1
    /\ ok' = TRUE
    /\ count' = 0
    /\ spaceReclaimed' = 0

\* The runner's context is canceled.
Stop ==
    /\ ~stopped
    /\ gcPc \notin {"disabled", "exited"}
    /\ stopped' = TRUE
    /\ UNCHANGED <<gcConfigured, triggers, containerTTL, imageGCCountThreshold,
                   imageBufferSize, now, rtVars, gcPc, gcLocals, gcLog,
                   requestSide>>

\* StartGarbageCollector: the test of cfg, then the first call of trigger.
StartGarbageCollector ==
    /\ gcPc = "off"
    /\ IF ~gcConfigured
       THEN /\ gcPc' = "disabled"
            /\ UNCHANGED triggers
       ELSE /\ gcPc' = "t_start"
            /\ triggers' = triggers + 1
    /\ UNCHANGED <<gcConfigured, stopped, containerTTL, imageGCCountThreshold,
                   imageBufferSize, now, rtVars, gcLocals, gcLog, requestSide>>

\* triggerGC: the first isStopped test; the container sub-pass is called.
triggerGCStart ==
    /\ gcPc = "t_start"
    /\ gcPc' = IF isStopped THEN AfterTrigger("nil") ELSE "c_start"
    /\ gcLog' = <<>>
    /\ gcErr' = "nil"
    /\ UNCHANGED <<gcCfgVars, now, rtVars, containers, candidates, detailed,
                   toRemove, idx, tagIdx, ok, count, spaceReclaimed,
                   requestSide>>

\* triggerGC: the container sub-pass has returned; its error ends the
\* trigger, otherwise the second isStopped test and the image sub-pass.
triggerGCMiddle ==
    /\ gcPc = "c_ret"
    /\ IF gcErr # "nil"
       THEN gcPc' = AfterTrigger(gcErr)
       ELSE gcPc' = IF isStopped THEN AfterTrigger("nil") ELSE "i_start"
    /\ ForgetGCLocals
    /\ UNCHANGED <<gcCfgVars, now, rtVars, gcErr, gcLog, requestSide>>

\* triggerGC: the image sub-pass has returned, and so does triggerGC.
triggerGCEnd ==
    /\ gcPc = "i_ret"
    /\ gcPc' = AfterTrigger(gcErr)
    /\ ForgetGCLocals
    /\ UNCHANGED <<gcCfgVars, now, rtVars, gcErr, gcLog, requestSide>>

\* The loop of StartGarbageCollector: case <-t.C, then trigger().
LoopTick ==
    /\ gcPc = "loop_wait"
    /\ triggers < MaxTriggers
    /\ triggers' = triggers + 1
    /\ gcPc' = "t_start"
    /\ UNCHANGED <<gcConfigured, stopped, containerTTL, imageGCCountThreshold,
                   imageBufferSize, now, rtVars, gcLocals, gcLog, requestSide>>

\* The loop of StartGarbageCollector: case <-r.ctx.Done(): return.
LoopExit ==
    /\ gcPc = "loop_wait"
    /\ stopped
    /\ gcPc' = "exited"
    /\ UNCHANGED <<gcCfgVars, now, rtVars, gcLocals, gcLog, requestSide>>

\* The steps of the collector's goroutine that need no tick of the ticker.
CollectorStep ==
    \/ StartGarbageCollector
    \/ triggerGCStart
    \/ ContainersPrune
    \/ ContainersList
    \/ SweepContainer
    \/ triggerGCMiddle
    \/ ImagesStart
    \/ ImageInspect
    \/ ImagesSort
    \/ RemoveTag
    \/ triggerGCEnd

NextGC ==
    \/ CollectorStep
    \/ LoopTick
    \/ LoopExit
    \/ Stop

\* The runtime the loop is followed on: an owned container "c1" and a foreign
\* one "c2", both created at second 0; the owned images "i1" and "i2" and the
\* foreign "u1", the owned ones tagged at different times.
LoopContainerSets ==
    {S \in ContainerSets :
        \A c \in S : c.created = 0 /\ (c.owned <=> c.id = "c1")}

LoopImageSets ==
    {S \in ImageSets :
        \A img \in S : /\ img.id \in {"i1", "i2", "u1"}
                        /\ img.lastTag = (IF img.id = "i2" THEN 2 ELSE 1)}

InitGC ==
    /\ InitNoRequest
    /\ gcConfigured \in BOOLEAN
    /\ stopped = FALSE
    /\ triggers = 0
    /\ containerTTL \in {{}, {1}}
    /\ imageGCCountThreshold \in {{}, {1}}
    /\ imageBufferSize \in {0, 1}
    /\ ~gcConfigured =>
            (containerTTL = {} /\ imageGCCountThreshold = {} /\ imageBufferSize = 0)
    /\ now = 1
    /\ rtContainers \in LoopContainerSets
    /\ goneContainers = {}
    /\ rtImages \in LoopImageSets
    /\ goneTags = {}
    /\ gcPc = "off"
    /\ InitGCLocals

SpecGC == InitGC /\ [][NextGC]_vars

\* The collector's goroutine takes the step it is able to take; and the
\* select of the loop, which picks among its ready cases at random, does not
\* pass over the ready case <-r.ctx.Done() for ever.
FairSpecGC ==
    /\ SpecGC
    /\ WF_vars(CollectorStep)
    /\ SF_vars(LoopExit)

\* ------------------------------------------------------------------ claims
Removes(r) == calls[r]["remove"]

\* RunQuery has returned and no goroutine of it is still to run.
Finished(r) == pc[r] = "done" /\ watcher[r] \in {"none", "done"}

\* C1: every RunQuery call that got as far as creating its container ends,
\* on every exit path, with exactly one force-remove call against it.
C1_ExactlyOneRemove ==
    \A r \in Req :
        (Finished(r) /\ container[r] # "none") => Removes(r) = 1

\* C2: for a request whose container was started, the watcher's force-remove
\* is issued only once the caller's ctx is canceled or RunQuery has returned,
\* and after either of the two it is eventually issued, exactly once.
C2_RemoveOnlyAndEventuallyAfterEnd ==
    /\ [][\A r \in Req :
            Removes(r)' # Removes(r) =>
                /\ containerID[r]
                /\ ctxDone[r] \/ pc[r] = "done"
                /\ Removes(r) = 0]_vars
    /\ \A r \in Req :
            (containerID[r] /\ (ctxDone[r] \/ pc[r] = "done"))
                ~> (Removes(r) = 1)

\* C2 witness: the removal was issued on cancellation, RunQuery still running.
C2_Witness ==
    \E r \in Req : Removes(r) = 1 /\ ctxDone[r] /\ pc[r] = "exec_select"

\* C10: once exec has left its select through ctx.Done(), what it returns is
\* the cancellation error (never nil), and the collector has terminated or
\* can still take a step: it is not blocked for good.
C10_CancelReturnedAndCollectorEnds ==
    \A r \in Req :
        execCanceled[r] =>
            /\ pc[r] = "exec_unwind" => execErr[r] = "canceled"
            /\ \/ collector[r] = "done"
               \/ ENABLED CollectorCopy(r)
               \/ ENABLED ExecReceive(r)

Execs(r) == calls[r]["exec"]

\* runQuery has returned its output with a nil error.
QueryReturned(r) == pc[r] = "check" /\ err[r] = "nil"

\* C7: runQuery goes on to another attempt only after an attempt whose
\* stderr contains the sentinel and stops at the first attempt whose stderr
\* does not (empty or unrelated text); it never makes more than MaxExecRetries
\* exec calls; each attempt before the last one ended in the sentinel, so with
\* the sentinel on attempts 1 and 2 and absent on attempt 3 there are exactly
\* 3 exec calls; and the output returned for an attempt that shows no sentinel
\* contains no sentinel text.
C7_StopsAtFirstReadyAttempt ==
    \A r \in Req :
        /\ Execs(r) <= maxExecRetries
        /\ pc[r] = "sleep" =>
            /\ Contains(stderr[r], Sentinel)
            /\ Execs(r) = retry[r] + 1
        /\ (pc[r] = "rq_ret" /\ ~Contains(stderr[r], Sentinel)
                /\ maxExecRetries > 0) =>
            Execs(r) = retry[r] + 1
        /\ (pc[r] = "rq_ret" /\ Contains(stderr[r], Sentinel)) =>
            /\ Execs(r) = maxExecRetries
            /\ retry[r] = maxExecRetries
        /\ (QueryReturned(r) /\ ~Contains(stdout[r], Sentinel)
                /\ ~Contains(stderr[r], Sentinel)) =>
            ~Contains(output[r], Sentinel)

\* C7 witness: MaxExecRetries = 3, two not-ready attempts, the third one
\* answered with an unrelated error text, and runQuery returned it.
C7_Witness ==
    \E r \in Req :
        /\ maxExecRetries = 3
        /\ QueryReturned(r)
        /\ retry[r] = 2
        /\ Execs(r) = 3
        /\ stderr[r] = <<"x">>
        /\ output[r] = stdout[r] \o <<"NL", "x">>

\* C8: when each of the MaxExecRetries attempts returned the sentinel on
\* stderr, runQuery returns stdout, a newline and stderr of the last attempt,
\* with a nil error.
C8_ExhaustedRetriesReturnLastOutput ==
    \A r \in Req :
        (pc[r] = "check" /\ maxExecRetries > 0 /\ retry[r] = maxExecRetries) =>
            /\ err[r] = "nil"
            /\ Execs(r) = maxExecRetries
            /\ Contains(stderr[r], Sentinel)
            /\ output[r] = stdout[r] \o <<"NL">> \o stderr[r]

\* C8 witness: three attempts, all not ready, and runQuery has returned.
C8_Witness ==
    \E r \in Req :
        /\ maxExecRetries = 3
        /\ retry[r] = 3
        /\ pc[r] = "check"
        /\ stdout[r] = <<"x">>
        /\ output[r] = <<"x", "NL", "DB", "CR">>

SameDigest(r1, r2) ==
    /\ r1 # r2
    /\ TagStorageGet(version[r1]) # NoTag
    /\ TagStorageGet(version[r1]) = TagStorageGet(version[r2])

Pulls(r) == calls[r]["pull"]

\* pull has returned nil.
Pulled(r) == pc[r] = "create"

\* C9 as claimed: of two requests whose versions resolve to one digest, both
\* get the same cache image name and, when both pulls have succeeded and every
\* probe was answered by the runtime, only one of them has issued an upstream
\* pull, whatever the interleaving.
C9_OnlyOnePullPerDigest ==
    \A r1, r2 \in Req :
        (/\ SameDigest(r1, r2) /\ Pulled(r1) /\ Pulled(r2)
         /\ calls[r1]["probe_err"] = 0 /\ calls[r2]["probe_err"] = 0) =>
            /\ chpImageName[r1] = chpImageName[r2]
            /\ Pulls(r1) + Pulls(r2) = 1

\* C9 amended: both get the same cache image name; a request pulls (once) and
\* tags (once) exactly when its own probe missed; a request whose pull
\* returned nil without an upstream pull was a cache hit, which happens only
\* after a request with the same cache name has completed its tag call.
C9_PullIffOwnProbeMissed ==
    \A r1, r2 \in Req :
        (r1 # r2 /\ TagStorageGet(version[r1]) # NoTag) =>
            /\ (SameDigest(r1, r2) /\ pc[r1] # "pull_get"
                    /\ pc[r2] # "pull_get") =>
                chpImageName[r1] = chpImageName[r2]
            /\ Pulls(r1) <= 1
            /\ calls[r1]["tag"] <= Pulls(r1)
            /\ (Pulled(r1) /\ Pulls(r1) = 1) => calls[r1]["tag"] = 1
            /\ (Pulled(r1) /\ Pulls(r1) = 0) =>
                /\ chpImageName[r1] = chpImageName[r2]
                /\ calls[r2]["tag"] = 1
                /\ pc[r2] \in {"create", "done"}
                /\ chpImageName[r1] \in images

\* C9 witness: "latest" and "22.1" one after the other: the first pulled and
\* tagged, the second was a cache hit with no pull and no tag call.
C9_Witness ==
    /\ version["r1"] = "latest"
    /\ version["r2"] = "22.1"
    /\ Pulled("r1") /\ Pulled("r2")
    /\ Pulls("r1") = 1 /\ calls["r1"]["tag"] = 1
    /\ Pulls("r2") = 0 /\ calls["r2"]["tag"] = 0

\* The entries of the log for one kind of runtime call.
LogOf(kind) == {i \in DOMAIN gcLog : gcLog[i][1] = kind}

\* The images that were ours when the pass began, and their number C.
OwnedImages ==
    {img \in rtImages :
        \E i \in DOMAIN img.tags : IsPlaygroundImageName(img.tags[i], Repository)}

\* The ids of the images that a removal call was issued against.
Attempted == {gcLog[i][2] : i \in LogOf("imageremove")}

\* The owned images no removal call was issued against.
Retained == {img \in OwnedImages : img.id \notin Attempted}

Threshold == CHOOSE n \in imageGCCountThreshold : TRUE

\* An image sub-pass that evicted has returned: the threshold is configured
\* and met, every inspect succeeded, and bufferSize is below the number of
\* candidates.
EvictingPassDone ==
    /\ gcPc = "i_ret"
    /\ gcErr = "nil"
    /\ imageGCCountThreshold # {}
    /\ LogOf("imagelist") # {}
    /\ Cardinality(OwnedImages) >= Threshold
    /\ Len(detailed) = Cardinality(OwnedImages)
    /\ imageBufferSize < Cardinality(OwnedImages)

\* C3: when the image sub-pass has evicted among candidates with distinct
\* last-tag times, every image it retained was tagged later than every image
\* it attempted to remove (it keeps the most recently tagged ones).
C3_RetainsMostRecentlyTagged ==
    (/\ EvictingPassDone
     /\ \A a, b \in OwnedImages : a # b => a.lastTag # b.lastTag) =>
        \A k \in Retained : \A a \in OwnedImages :
            a.id \in Attempted => a.lastTag < k.lastTag

\* C4: with C candidates, bufferSize B < C, the threshold met and every
\* inspect succeeding, the sub-pass issues removal calls against exactly C-B
\* distinct images, all of them candidates, and leaves exactly B candidates
\* without any removal call and with all their tags; the images it kept (the
\* first B of the sorted list) are none of those it attempted to remove.
C4_RemovesAllButBufferSize ==
    EvictingPassDone =>
        /\ Cardinality(Attempted) = Cardinality(OwnedImages) - imageBufferSize
        /\ Attempted \subseteq {img.id : img \in OwnedImages}
        /\ Cardinality(Retained) = imageBufferSize
        /\ \A k \in Retained : \A i \in DOMAIN k.tags : k.tags[i] \notin goneTags
        /\ {detailed[i].id : i \in 1..imageBufferSize} \cap Attempted = {}
        /\ \A img \in OwnedImages : img.id \in Attempted =>
              \A t \in Range(img.tags) :
                  \E i \in LogOf("imageremove") : gcLog[i] = <<"imageremove", img.id, t>>

\* C4 witness: three candidates, bufferSize 1, two images attempted.
C4_Witness ==
    /\ EvictingPassDone
    /\ Cardinality(OwnedImages) = 3
    /\ imageBufferSize = 1
    /\ Cardinality(Attempted) = 2

\* C5: with the threshold unset the image sub-pass issues no runtime call at
\* all; with fewer owned candidates than the threshold it issues no inspect
\* and no remove call and removes nothing.
C5_NoEvictionBelowThreshold ==
    /\ imageGCCountThreshold = {} => gcLog = <<>>
    /\ (imageGCCountThreshold # {} /\ Cardinality(OwnedImages) < Threshold) =>
        /\ LogOf("inspect") = {}
        /\ LogOf("imageremove") = {}
        /\ goneTags = {}
        /\ count = 0
        /\ gcPc = "i_ret" => Len(gcLog) = 1

\* C5 witness: two owned images and a foreign one, threshold 3: the pass has
\* returned after the list call alone.
C5_Witness ==
    /\ gcPc = "i_ret"
    /\ imageGCCountThreshold = {3}
    /\ Cardinality(OwnedImages) = 2
    /\ Cardinality(rtImages) = 3
    /\ gcLog = << <<"imagelist">> >>

\* C6: the sweep force-removes a container only when it is owned and its
\* creation time plus containerTTL is not after the time of the call; with
\* containerTTL unset the sub-pass issues its prune and neither a list nor a
\* force-remove call.
C6_SweepOnlyAfterTTL ==
    /\ \A i \in LogOf("remove") :
        /\ containerTTL # {}
        /\ \E c \in rtContainers :
            /\ c.id = gcLog[i][2]
            /\ c.owned
            /\ \A ttl \in containerTTL : c.created + ttl <= gcLog[i][4]
            /\ gcLog[i][4] <= now
    /\ containerTTL = {} =>
        /\ LogOf("list") = {}
        /\ LogOf("remove") = {}
        /\ gcPc = "c_ret" => gcLog = << <<"prune">> >>

\* C6 witness: the sweep has removed one container and left a younger one.
C6_Witness ==
    /\ gcPc = "c_ret"
    /\ LogOf("remove") # {}
    /\ \E c \in LiveContainers :
        /\ c.owned /\ c.running
        /\ \A ttl \in containerTTL : now < c.created + ttl

\* C11: a request whose version the tag storage does not know ("0.0" is the
\* one version of the universe it has no tag for) makes no runtime call at all (no probe, pull, tag, create, start, exec or force-remove), gets
\* no container and no watcher, and goes from the resolution straight to the
\* return of an error: the resolution is not tried a second time.
C11_UnknownVersionFailsWithoutCalls ==
    \A r \in Req :
        version[r] = "0.0" =>
            /\ \A op \in Ops : calls[r][op] = 0
            /\ pc[r] \in {"off", "pull_get", "done"}
            /\ container[r] = "none"
            /\ watcher[r] = "none"
            /\ pc[r] = "done" => result[r] = [out |-> <<>>, err |-> "version not found"]

\* C11 witness: the request for the unknown version "0.0" has returned.
C11_Witness ==
    \E r \in Req :
        /\ version[r] = "0.0"
        /\ pc[r] = "done"
        /\ result[r].err = "version not found"

\* C12: from the moment runQuery has returned (its results are in output and
\* err) no step of the watcher changes them, and what RunQuery returns is what
\* runQuery returned: its error if there is one (a cancellation error stays a
\* cancellation error), otherwise its output with a nil error.
C12_ReturnsWhatRunQueryReturned ==
    [][\A r \in Req :
        pc[r] = "check" =>
            /\ err'[r] = err[r]
            /\ output'[r] = output[r]
            /\ pc'[r] = "done" =>
                    result'[r] = [out |-> IF err[r] = "nil" THEN output[r]
                                                          ELSE <<>>,
                                  err |-> err[r]]]_vars

\* C13: a pull whose stream io.ReadAll could not read to its end is followed
\* by no tag call and is not a pull that returned nil.
C13_NoTagAfterFailedRead ==
    \A r \in Req :
        calls[r]["read_err"] > 0 =>
            /\ calls[r]["tag"] = 0
            /\ ~Pulled(r)

\* C14: when the caller's ctx is canceled while runQuery waits between two
\* attempts, the wait ends without another exec attempt: the loop is left
\* and no further exec call is made.
C14_SleepObservesCancellation ==
    [][\A r \in Req :
        (pc[r] = "sleep" /\ ctxDone[r]) =>
            /\ pc'[r] # "exec_create"
            /\ Execs(r)' = Execs(r)]_vars

\* C15: in a trigger during which r.ctx is not canceled, the image sub-pass
\* is what follows the return of the container sub-pass, whatever that
\* sub-pass returned.
C15_ImageSubPassFollowsAnyContainerSubPass ==
    [][(gcPc = "c_ret" /\ ~stopped /\ gcPc' # gcPc) => gcPc' = "i_start"]_vars

\* The positions of the collector outside the two sub-passes.
AtBoundary == gcPc \in {"off", "disabled", "t_start", "c_ret", "i_ret",
                        "loop_wait", "exited"}

\* C16: once r.ctx is canceled no sub-pass is begun, no step taken at a
\* sub-pass boundary or in the loop issues a runtime call, the runtime is not
\* changed any more, and the loop of a configured collector eventually
\* exits; without a GCConfig the loop never starts and no call is issued.
C16_NoSubPassAfterStopAndLoopExits ==
    /\ [][stopped =>
            /\ gcPc' # gcPc => gcPc' \notin {"c_start", "i_start"}
            /\ AtBoundary => Len(gcLog') <= Len(gcLog)
            /\ rtVars' = rtVars]_vars
    /\ (stopped /\ gcConfigured) ~> (gcPc = "exited")
    /\ [](~gcConfigured =>
            (gcPc \in {"off", "disabled"} /\ gcLog = <<>> /\ triggers = 0))

\* C16 witness: the ticker fired once more after the cancellation; that
\* trigger returned without a call and the loop has exited.
C16_Witness ==
    /\ gcPc = "exited"
    /\ stopped
    /\ triggers = 2
    /\ gcLog = <<>>
    /\ rtContainers # {}

\* C17: whatever a trigger returned, the collector goes back to the select
\* of its loop; the loop is left only when r.ctx is canceled; a tick starts
\* a trigger and, r.ctx not being canceled, that trigger begins with the
\* container sub-pass, its error cleared.
C17_FailedTriggerKeepsLoopRunning ==
    [][/\ (gcPc \in {"c_ret", "i_ret"} /\ gcErr # "nil" /\ gcPc' # gcPc) =>
            gcPc' = "loop_wait"
       /\ (gcPc' = "exited" /\ gcPc # "exited") => stopped
       /\ (gcPc = "loop_wait" /\ triggers' # triggers) => gcPc' = "t_start"
       /\ (gcPc = "t_start" /\ ~stopped /\ gcPc' # gcPc) =>
            (gcPc' = "c_start" /\ gcErr' = "nil")]_vars

\* C17 witness: the first trigger failed in its image list call (its error
\* is still the one last logged), a tick came, r.ctx is not canceled and the
\* second trigger has been started.
C17_Witness ==
    /\ triggers = 2
    /\ ~stopped
    /\ gcPc = "t_start"
    /\ gcErr = "failed to list images"
    /\ gcLog = << <<"prune">>, <<"imagelist">> >>

RECURSIVE SumSize(_)
SumSize(S) ==
    IF S = {} THEN 0
    ELSE LET x == CHOOSE y \in S : TRUE IN x.size + SumSize(S \ {x})

\* The images removeImages is through with, and those of them that have lost
\* every one of their tags.
Handled == {toRemove[k] : k \in 1..(idx - 1)}

FullyRemoved == {img \in Handled : \A t \in Range(img.tags) : t \in goneTags}

\* C18: while removeImages runs and when the sub-pass has returned, the
\* removed count is the number of handled images all of whose tag removals
\* succeeded and the reclaimed space the sum of their sizes (an image with a
\* failed tag removal is not counted), and no tag has got a second removal
\* call in the pass.
C18_CountedIffEveryTagRemoved ==
    /\ gcPc \in {"i_remove", "i_ret"} =>
        /\ count = Cardinality(FullyRemoved)
        /\ spaceReclaimed = SumSize(FullyRemoved)
    /\ \A i, j \in LogOf("imageremove") : gcLog[i][3] = gcLog[j][3] => i = j

\* C18 witness: of the two tags of "i1" the first removal failed and the
\* second succeeded, so "i1" is not counted, while "i2" is.
C18_Witness ==
    /\ gcPc = "i_ret"
    /\ \E img \in Handled :
        /\ img.id = "i1"
        /\ img.tags[1] \notin goneTags
        /\ img.tags[2] \in goneTags
    /\ \E img \in FullyRemoved : img.id = "i2"
    /\ count = 1
    /\ spaceReclaimed = PoolSize("i2")

\* pull is past its probe and has not returned.
InPull(r) == pc[r] \in {"pull_pull", "pull_read", "pull_tag"}

\* C19: a request probes once and issues at most one pull and at most one tag
\* call, the tag only after the pull; it is past its probe without having
\* returned only when the probe missed (the cache image absent, or the probe
\* unanswered); a request that got past pull without an upstream pull made no
\* tag call either and its cache image is local (a hit); a container is
\* created only after a hit or after a tag call that followed the pull, so a
\* request whose pull or tag failed has returned an error with no container,
\* each call made once.
C19_PullAndTagOnlyOnMissNoRetry ==
    \A r \in Req :
        /\ calls[r]["probe"] <= 1
        /\ Pulls(r) <= calls[r]["probe"]
        /\ calls[r]["tag"] <= Pulls(r)
        /\ (InPull(r) /\ calls[r]["probe_err"] = 0) => chpImageName[r] \notin images
        /\ (calls[r]["probe"] = 1 /\ Pulls(r) = 0 /\ pc[r] # "pull_pull") =>
            /\ calls[r]["tag"] = 0
            /\ chpImageName[r] \in images
            /\ calls[r]["probe_err"] = 0
        /\ calls[r]["create"] > 0 => calls[r]["tag"] = Pulls(r)
        /\ (pc[r] = "done" /\ calls[r]["probe"] = 1 /\ calls[r]["create"] = 0) =>
            /\ result[r].err \in {"failed", "canceled"}
            /\ Pulls(r) = 1
            /\ container[r] = "none"

\* C19 witness: the cache image was local and the request, after one probe
\* and neither pull nor tag, has created its container.
C19_Witness ==
    \E r \in Req :
        /\ calls[r]["probe"] = 1
        /\ Pulls(r) = 0
        /\ calls[r]["tag"] = 0
        /\ calls[r]["create"] = 1
        /\ container[r] = "created"

\* C19 second case: the tag call failed after the pull; the request has
\* returned the error, with one pull, one tag call and no container.
C19_FailureReached ==
    \E r \in Req :
        /\ pc[r] = "done"
        /\ Pulls(r) = 1
        /\ calls[r]["tag"] = 1
        /\ calls[r]["create"] = 0
        /\ result[r].err = "failed"

HasOwnedTag(img) ==
    \E i \in DOMAIN img.tags : IsPlaygroundImageName(img.tags[i], Repository)

\* C20: all that the collector's prune and sweep have removed are containers
\* with the ownership label; the containers it listed and those it issued a
\* force-remove against carry the label; every image it inspected or issued a
\* tag removal against is an image that had a cache-named tag when it was
\* listed; and every tag it removed belongs to such an image.
C20_TouchesOnlyOwned ==
    /\ \A id \in goneContainers : \E c \in rtContainers : c.id = id /\ c.owned
    /\ \A k \in DOMAIN containers : containers[k].owned
    /\ \A i \in LogOf("remove") :
            \E c \in rtContainers : c.id = gcLog[i][2] /\ c.owned
    /\ \A k \in DOMAIN candidates : HasOwnedTag(candidates[k])
    /\ \A k \in DOMAIN toRemove :
            \E j \in DOMAIN candidates : candidates[j].id = toRemove[k].id
    /\ gcPc \in {"i_inspect", "i_sort", "i_remove"} =>
            \A i \in LogOf("inspect") \cup LogOf("imageremove") :
                \E j \in DOMAIN candidates : candidates[j].id = gcLog[i][2]
    /\ \A i \in LogOf("inspect") \cup LogOf("imageremove") :
            \E img \in OwnedImages : img.id = gcLog[i][2]
    /\ \A t \in goneTags : \E img \in OwnedImages : t \in Range(img.tags)

\* C20 witness: a trigger has removed the owned container and tags of an
\* owned image; the exited foreign container and the foreign image are still
\* there.
C20_Witness ==
    /\ gcPc = "loop_wait"
    /\ "c1" \in goneContainers
    /\ \E c \in LiveContainers : c.id = "c2" /\ ~c.running
    /\ LogOf("inspect") # {}
    /\ goneTags # {}
    /\ \E img \in LiveImages : img.id = "u1"

====
